---- MODULE Spec2Model ----
(***************************************************************************)
(* A model of src/blbldl.py: the stream selector (get_media_info,          *)
(* find_highest_quality_file_index), the page parser (parse_bv_info), the  *)
(* fetch orchestrator (fetch_video_info), the downloader (download_audio)  *)
(* and their caller (download_audio_from_line).                            *)
(*                                                                         *)
(* Python exceptions are modelled as values ([t |-> "raise"]) or as the    *)
(* outcome "raised" of the function that lets them escape.                 *)
(***************************************************************************)
EXTENDS Integers, Sequences, FiniteSets, TLC

\* ------------------------------------------------------------------ bounds

\* Longest descriptor list drawn as an input.
MaxLen == 2
\* Largest value of a numeric descriptor field (width, height, frame rate, bandwidth).
MaxVal == 1

\* ------------------------------------------------------- JSON-shaped values
\* A parsed JSON container is a record tagged by t: a dict carries a record v
\* whose DOMAIN is the set of keys present, a list carries a sequence v.
\* A key that is absent is simply not in DOMAIN v; a key present with the JSON
\* value null maps to JNull.

EmptyRec == [k \in {} |-> 0]
JNull == [t |-> "null"]
JDict(r) == [t |-> "dict", v |-> r]
JList(s) == [t |-> "list", v |-> s]
\* The exception an attribute access on a non-dict raises (AttributeError).
Raised == [t |-> "raise"]

\* obj.get(key, default): AttributeError unless obj is a dict; an exception
\* raised earlier in a chained expression skips the rest of the chain.
Get(obj, key, default) ==
    IF obj.t # "dict" THEN Raised
    ELSE IF key \in DOMAIN obj.v THEN obj.v[key]
    ELSE default

\* Python truth value of a container: None, {} and [] are false.
Truthy(x) ==
    CASE x.t = "dict" -> DOMAIN x.v # {}
      [] x.t = "list" -> Len(x.v) > 0
      [] OTHER -> FALSE

\* x is a dict that has key.
IsDictWith(x, key) == x.t = "dict" /\ key \in DOMAIN x.v

\* d.get(key, default) on a descriptor, a plain record of leaf values.
Field(d, key, default) == IF key \in DOMAIN d THEN d[key] ELSE default

\* ------------------------------------------------------------------ strings
\* Codec strings are sequences of one-character strings, so that lower() and
\* split('.') are computed.

LowerChar(c) ==
    CASE c = "F" -> "f"
      [] c = "L" -> "l"
      [] c = "A" -> "a"
      [] c = "C" -> "c"
      [] c = "M" -> "m"
      [] c = "P" -> "p"
      [] OTHER -> c

\* str.lower()
Lower(s) == [i \in 1..Len(s) |-> LowerChar(s[i])]

\* str.split('.')[0]: the text before the first period, all of it when none.
SplitFirst(s) ==
    LET dots == {i \in 1..Len(s) : s[i] = "."}
    IN  IF dots = {} THEN s
        ELSE SubSeq(s, 1, (CHOOSE i \in dots : \A j \in dots : i <= j) - 1)

\* ---------------------------------------- find_highest_quality_file_index

Width(video) == Field(video, "width", 0)
Height(video) == Field(video, "height", 0)
\* video.get('frameRate', video.get('frame_rate', 0))
FrameRate(video) == Field(video, "frameRate", Field(video, "frame_rate", 0))
Bandwidth(video) == Field(video, "bandwidth", 0)

\* Mutant: the height comparison without its width guard.
IsHigherQualityNoWidthGuard(current, highest) ==
    \/ Width(current) > Width(highest)
    \/ Height(current) > Height(highest)
    \/ /\ Width(current) = Width(highest)
       /\ Height(current) = Height(highest)
       /\ FrameRate(current) > FrameRate(highest)
    \/ /\ Width(current) = Width(highest)
       /\ Height(current) = Height(highest)
       /\ FrameRate(current) = FrameRate(highest)
       /\ Bandwidth(current) > Bandwidth(highest)

\* Mutant: the last key compared with >= , so that a full tie replaces the best.
IsHigherQualityTieReplaces(current, highest) ==
    \/ Width(current) > Width(highest)
    \/ /\ Width(current) = Width(highest)
       /\ Height(current) > Height(highest)
    \/ /\ Width(current) = Width(highest)
       /\ Height(current) = Height(highest)
       /\ FrameRate(current) > FrameRate(highest)
    \/ /\ Width(current) = Width(highest)
       /\ Height(current) = Height(highest)
       /\ FrameRate(current) = FrameRate(highest)
       /\ Bandwidth(current) >= Bandwidth(highest)

\* The condition of lines 170-175.
IsHigherQuality(current, highest) ==
    \/ Width(current) > Width(highest)
    \/ /\ Width(current) = Width(highest)
       /\ Height(current) > Height(highest)
    \/ /\ Width(current) = Width(highest)
       /\ Height(current) = Height(highest)
       /\ FrameRate(current) > FrameRate(highest)
    \/ /\ Width(current) = Width(highest)
       /\ Height(current) = Height(highest)
       /\ FrameRate(current) = FrameRate(highest)
       /\ Bandwidth(current) > Bandwidth(highest)

\* The loop of lines 158-176 from position index (0-based, as enumerate
\* counts) with the running best highest_index.
RECURSIVE HighestFrom(_, _, _)
HighestFrom(video_list, index, highest_index) ==
    IF index >= Len(video_list) THEN highest_index
    ELSE HighestFrom(video_list, index + 1,
             IF IsHigherQuality(video_list[index + 1], video_list[highest_index + 1])
             THEN index ELSE highest_index)

\* find_highest_quality_file_index: a 0-based index, -1 for the empty list.
FindHighestQualityFileIndex(video_list) ==
    IF Len(video_list) = 0 THEN -1
    ELSE HighestFrom(video_list, 0, 0)

\* ------------------------------------------------------------ get_media_info

\* bv_json.get("data", {}).get("dash", {}).get("flac", {}).get("audio", {})
FlacChain(bv_json) ==
    LET data == Get(bv_json, "data", JDict(EmptyRec))
        dash == IF data.t = "raise" THEN Raised ELSE Get(data, "dash", JDict(EmptyRec))
        flac == IF dash.t = "raise" THEN Raised ELSE Get(dash, "flac", JDict(EmptyRec))
    IN  IF flac.t = "raise" THEN Raised ELSE Get(flac, "audio", JDict(EmptyRec))

\* bv_json.get("data", {}).get("dash", {}).get("audio", [])
AudioChain(bv_json) ==
    LET data == Get(bv_json, "data", JDict(EmptyRec))
        dash == IF data.t = "raise" THEN Raised ELSE Get(data, "dash", JDict(EmptyRec))
    IN  IF dash.t = "raise" THEN Raised ELSE Get(dash, "audio", JList(<<>>))

\* What get_media_info hands back: a SelectedAudio dictionary (t = "return"),
\* or an exception that escapes to the caller (t = "raise"). compared records
\* whether find_highest_quality_file_index was called on the way.
Selected(link, audio_format, is_flac, compared) ==
    [t |-> "return", link |-> link, audio_format |-> audio_format,
     is_flac |-> is_flac, compared |-> compared]
Escaped == [t |-> "raise", link |-> "", audio_format |-> <<>>,
            is_flac |-> FALSE, compared |-> FALSE]

\* Lines 211-234: the lossy path, entered with the audio_list the try block or
\* its handler left.
LossyPath(bv_json, audio_list0) ==
    LET audio_list == IF Truthy(audio_list0) THEN audio_list0 ELSE AudioChain(bv_json)
    IN  IF audio_list.t = "raise" THEN Escaped
        ELSE IF ~Truthy(audio_list) THEN Selected("", <<>>, FALSE, FALSE)
        ELSE LET highest_index == FindHighestQualityFileIndex(audio_list.v)
             IN  IF highest_index < 0 THEN Selected("", <<>>, FALSE, TRUE)
                 ELSE LET max_audio == audio_list.v[highest_index + 1]
                          codecs == Field(max_audio, "codecs", <<>>)
                          audio_format == IF codecs # <<>> THEN Lower(SplitFirst(codecs))
                                          ELSE <<>>
                      IN  Selected(Field(max_audio, "baseUrl", ""), audio_format,
                                   FALSE, TRUE)

\* Line 198: flac_data is not None and flac_data.get("baseUrl")
FlacUsable(flac_data) ==
    /\ flac_data.t = "dict"
    /\ Field(flac_data.v, "baseUrl", "") # ""

\* The return of lines 199-205.
FlacSelected(flac_data) ==
    Selected(flac_data.v["baseUrl"], Lower(Field(flac_data.v, "codecs", <<>>)),
             TRUE, FALSE)

\* Mutant: the lossy list is tried first and the lossless descriptor is used
\* only when the lossy path finds no URL.
GetMediaInfoLossyFirst(bv_json) ==
    LET flac_data == FlacChain(bv_json)
        lossy == LossyPath(bv_json, JList(<<>>))
    IN  IF flac_data.t = "raise" \/ lossy.t = "raise" THEN Escaped
        ELSE IF lossy.link # "" THEN lossy
        ELSE IF FlacUsable(flac_data) THEN FlacSelected(flac_data)
        ELSE lossy

\* get_media_info, lines 192-234.
GetMediaInfo(bv_json) ==
    LET flac_data == FlacChain(bv_json)
    IN  IF flac_data.t = "raise"
        THEN \* lines 206-208: the handler repeats the chain down to the lossy
             \* list; an exception raised inside the handler escapes
             LET audio_list == AudioChain(bv_json)
             IN  IF audio_list.t = "raise" THEN Escaped
                 ELSE LossyPath(bv_json, audio_list)
        ELSE IF FlacUsable(flac_data) THEN FlacSelected(flac_data)
        ELSE LossyPath(bv_json, JList(<<>>))

\* ------------------------------------------------------- selector inputs

\* Partial records: every subset of keys, every assignment of vals to it.
Partial(keys, vals) == UNION {[K -> vals] : K \in SUBSET keys}

\* Sequences of at most n elements of S.
SeqUpTo(S, n) == UNION {[1..k -> S] : k \in 0..n}

\* Descriptors for the comparator: each of the four quality keys absent or
\* 1..MaxVal, and the frame rate under its second key, alone or shadowed by a
\* frameRate of 0.
VideoDescs ==
    Partial({"width", "height", "frameRate", "bandwidth"}, 1..MaxVal)
    \cup {[frame_rate |-> v] : v \in 1..MaxVal}
    \cup {[frameRate |-> 0, frame_rate |-> v] : v \in 1..MaxVal}

VideoLists == SeqUpTo(VideoDescs, MaxLen)

CodecFlac == <<"f", "L", "a", "C">>
CodecAac == <<"M", "P", "4", "a", ".", "4", "0", ".", "2">>

\* Lossy audio descriptors: bandwidth, resource URL and codec, each optional.
AudioDescs ==
    {[baseUrl |-> u] : u \in {"", "u1", "u2"}}
    \cup {[baseUrl |-> u, bandwidth |-> b] : u \in {"", "u1", "u2"}, b \in 1..MaxVal}
    \cup {[baseUrl |-> u, bandwidth |-> b, codecs |-> CodecAac] :
              u \in {"u1", "u2"}, b \in 1..MaxVal}
    \cup {[bandwidth |-> b] : b \in 1..MaxVal}

\* The lossless descriptor at data.dash.flac.audio.
FlacDescs ==
    {EmptyRec, [codecs |-> CodecFlac]}
    \cup {[baseUrl |-> u] : u \in {"", "flac_url"}}
    \cup {[baseUrl |-> u, codecs |-> CodecFlac] : u \in {"", "flac_url"}}

\* A dict with an optional key: absent, or present with one of vals.
OptKey(key, vals) == {EmptyRec} \cup {[k \in {key} |-> x] : x \in vals}

FlacVals ==
    {JNull} \cup {JDict(r) : r \in OptKey("audio", {JNull} \cup {JDict(d) : d \in FlacDescs})}

DashDicts(audio_lists) ==
    LET audios == {JNull} \cup {JList(l) : l \in audio_lists}
    IN  {EmptyRec}
        \cup {[flac |-> f] : f \in FlacVals}
        \cup {[audio |-> a] : a \in audios}
        \cup {[flac |-> f, audio |-> a] : f \in FlacVals, a \in audios}

\* PlaybackInfoDocuments: every container on the paths data.dash.flac.audio
\* and data.dash.audio absent, null or present.
PlaybackDocs(audio_lists) ==
    LET dashes == {JNull} \cup {JDict(r) : r \in DashDicts(audio_lists)}
        datas == {JNull} \cup {JDict(r) : r \in OptKey("dash", dashes)}
    IN  {JDict(r) : r \in OptKey("data", datas)}

SelDocs == PlaybackDocs(SeqUpTo(AudioDescs, MaxLen))

\* ------------------------------------------------------------ parse_bv_info

\* The serialized length a matched assignment must exceed (lines 113 and 125).
SizeThreshold == 8000

\* A script block holds, for each of the two markers window.__playinfo__ and
\* window.__INITIAL_STATE__, either no matching assignment or one: the length
\* of the matched text and what json.loads makes of it (a document, or Raised
\* for malformed JSON).
NoAsg == [t |-> "none"]
Asg(len, parsed) == [t |-> "asg", len |-> len, parsed |-> parsed]

\* None, as a function returns it for a document it did not find.
NoDoc == JNull

\* Mutant: a matched text of exactly the threshold length qualifies.
ScanAsgAtThreshold(asg, found) ==
    IF asg.t = "asg" /\ asg.len >= SizeThreshold THEN asg.parsed ELSE found

\* Lines 107-116 (marker = "play") and 119-128 (marker = "state") on one
\* block: the document after the block, or Raised when json.loads raises.
ScanAsg(asg, found) ==
    IF asg.t = "asg" /\ asg.len > SizeThreshold THEN asg.parsed ELSE found

\* The loop of lines 101-132 from block i on, with the documents found so
\* far. An exception leaves the loop for the handler of line 133, and line
\* 136 returns what was assigned before it.
RECURSIVE ScanScripts(_, _, _, _)
ScanScripts(scripts, i, data, data1) ==
    IF i > Len(scripts) THEN <<data, data1>>
    ELSE LET d == ScanAsg(scripts[i].play, data)
         IN  IF d.t = "raise" THEN <<data, data1>>
             ELSE LET d1 == ScanAsg(scripts[i].state, data1)
                  IN  IF d1.t = "raise" THEN <<d, data1>>
                      ELSE IF Truthy(d) /\ Truthy(d1) THEN <<d, d1>>
                      ELSE ScanScripts(scripts, i + 1, d, d1)

\* parse_bv_info: the pair (playinfo, initial state) of a page, given as the
\* sequence of its non-empty script blocks.
ParseBvInfo(scripts) == ScanScripts(scripts, 1, NoDoc, NoDoc)

\* ------------------------------------------------------------- extract_bvid
\* Input lines are sequences of one-character strings.

Digits == {"0", "1", "2", "3", "4", "5", "6", "7", "8", "9"}
LowerLetters == {"a", "b", "c", "d", "e", "f", "g", "h", "i", "j", "k", "l", "m",
                 "n", "o", "p", "q", "r", "s", "t", "u", "v", "w", "x", "y", "z"}
UpperLetters == {"A", "B", "C", "D", "E", "F", "G", "H", "I", "J", "K", "L", "M",
                 "N", "O", "P", "Q", "R", "S", "T", "U", "V", "W", "X", "Y", "Z"}
Alnum == Digits \cup LowerLetters \cup UpperLetters

\* Number of alphanumeric characters after the prefix BV (line 246).
BvidTail == 10

\* The pattern BV[a-zA-Z0-9]{10} matches at position i.
BvidAt(string, i) ==
    /\ i + BvidTail + 1 <= Len(string)
    /\ string[i] = "B"
    /\ string[i + 1] = "V"
    /\ \A k \in 2..(BvidTail + 1) : string[i + k] \in Alnum

\* Mutant: the rightmost match.
ExtractBvidLast(string) ==
    LET hits == {i \in 1..Len(string) : BvidAt(string, i)}
    IN  IF hits = {} THEN <<>>
        ELSE LET last == CHOOSE i \in hits : \A j \in hits : i >= j
             IN  SubSeq(string, last, last + BvidTail + 1)

\* extract_bvid: the leftmost match of re.search, <<>> for None.
ExtractBvid(string) ==
    LET hits == {i \in 1..Len(string) : BvidAt(string, i)}
    IN  IF hits = {} THEN <<>>
        ELSE LET first == CHOOSE i \in hits : \A j \in hits : i <= j
             IN  SubSeq(string, first, first + BvidTail + 1)

\* --------------------------------------------------------- fetch_video_info

\* Lines 311-314: media_info_meta and media_info_meta.get('video') and
\* ....get('viewInfo') and ....get('is_upower_exclusive'). Each conjunct is
\* reached only when the one before it is true, so no .get meets None.
IsUpowerExclusive(media_info_meta) ==
    /\ Truthy(media_info_meta)
    /\ Truthy(Get(media_info_meta, "video", JNull))
    /\ Truthy(Get(Get(media_info_meta, "video", JNull), "viewInfo", JNull))
    /\ Field(Get(Get(media_info_meta, "video", JNull), "viewInfo", JNull).v,
             "is_upower_exclusive", FALSE)

\* d.get(key) on a dict of leaf values; the documents drawn carry every leaf
\* key, so the None of a missing leaf does not arise.
Leaf(d, key) == IF key \in DOMAIN d.v THEN d.v[key] ELSE JNull

NoRecord == [t |-> "none"]

\* Lines 323-328: the metadata record, or Raised. .get('videoData') is None
\* when media_info_meta has no such key, and media_info_meta itself is None
\* when the page had no metadata document: the next .get raises
\* AttributeError. bvid is a name neither fetch_video_info nor the module
\* binds: NameError unless the enclosing environment has bound it (bvid_env
\* is then its value).
AudioJson(media_info_meta, bvid_bound, bvid_env) ==
    LET videoData == Get(media_info_meta, "videoData", JNull)
        owner == IF videoData.t = "dict" THEN Get(videoData, "owner", JNull) ELSE Raised
    IN  IF videoData.t # "dict" \/ owner.t # "dict" \/ ~bvid_bound THEN Raised
        ELSE [t |-> "record",
              title |-> Leaf(videoData, "title"),
              owner |-> Leaf(owner, "name"),
              datetime |-> Leaf(videoData, "ctime"),
              bvid |-> bvid_env,
              duration |-> Leaf(videoData, "duration")]

\* What one attempt makes of a parsed page (lines 310-333): a return value
\* (ret = "excluded" or "ok"), an exception that escapes fetch_video_info
\* (ret = "raised"), or ret = "miss": log, sleep, next attempt.
Verdict(ret, link, json) == [ret |-> ret, audio_link |-> link, audio_json |-> json]

\* Mutant: the flag is looked at only when the page has no playback document.
ClassifyLinkFirst(media_info_link, media_info_meta, bvid_bound, bvid_env) ==
    IF Truthy(media_info_link)
    THEN LET audio_info_ == GetMediaInfo(media_info_link)
             audio_json_ == AudioJson(media_info_meta, bvid_bound, bvid_env)
         IN  IF audio_info_.t = "raise" \/ audio_json_.t = "raise"
             THEN Verdict("raised", "", NoRecord)
             ELSE Verdict("ok", audio_info_.link, audio_json_)
    ELSE IF IsUpowerExclusive(media_info_meta)
    THEN Verdict("excluded", "", NoRecord)
    ELSE Verdict("miss", "", NoRecord)

\* Mutant: a page without a playback document ends the call with 'failed'.
ClassifyMissFails(media_info_link, media_info_meta, bvid_bound, bvid_env) ==
    IF IsUpowerExclusive(media_info_meta)
    THEN Verdict("excluded", "", NoRecord)
    ELSE IF Truthy(media_info_link)
    THEN LET audio_info_ == GetMediaInfo(media_info_link)
             audio_json_ == AudioJson(media_info_meta, bvid_bound, bvid_env)
         IN  IF audio_info_.t = "raise" \/ audio_json_.t = "raise"
             THEN Verdict("raised", "", NoRecord)
             ELSE Verdict("ok", audio_info_.link, audio_json_)
    ELSE Verdict("failed", "", NoRecord)

Classify(media_info_link, media_info_meta, bvid_bound, bvid_env) ==
    IF IsUpowerExclusive(media_info_meta)
    THEN Verdict("excluded", "", NoRecord)
    ELSE IF Truthy(media_info_link)
    THEN LET audio_info_ == GetMediaInfo(media_info_link)
             audio_json_ == AudioJson(media_info_meta, bvid_bound, bvid_env)
         IN  IF audio_info_.t = "raise" \/ audio_json_.t = "raise"
             THEN Verdict("raised", "", NoRecord)
             ELSE Verdict("ok", audio_info_.link, audio_json_)
    ELSE Verdict("miss", "", NoRecord)

\* ------------------------------------------------------- orchestrator inputs

\* Largest max_attempts and delay of a direct call of fetch_video_info or
\* download_audio, and largest max_duration handed to download_audio_from_line.
MaxAttempts == 3
MaxDelay == 2
MaxDuration == 1

\* Number of bytes of the body a stream GET answers with.
BodyLen == 2

\* max_attempts and delay as fetch_audio_link_from_line (lines 394-395) sets
\* them, and as download_audio defaults them (line 342).
DefaultMaxAttempts == 10
DefaultDelay == 5

\* PlaybackInfoDocuments a page may embed: a lossless descriptor, one lossy
\* candidate, candidates without a URL, no candidates, a null data, an empty
\* document.
PagePlayDocs ==
    {JDict([data |-> JDict([dash |-> JDict(
         [flac |-> JDict([audio |-> JDict([baseUrl |-> "flac_url",
                                           codecs |-> CodecFlac])])])])]),
     JDict([data |-> JDict([dash |-> JDict(
         [flac |-> JNull,
          audio |-> JList(<<[baseUrl |-> "u1", bandwidth |-> 1,
                             codecs |-> CodecAac]>>)])])]),
     JDict([data |-> JDict([dash |-> JDict(
         [audio |-> JList(<<[bandwidth |-> 1]>>)])])]),
     JDict([data |-> JDict([dash |-> JDict([audio |-> JList(<<>>)])])]),
     JDict([data |-> JNull]),
     JDict(EmptyRec)}

\* The value at video of a PageMetadataDocument.
VideoVals ==
    {JNull, JDict(EmptyRec), JDict([viewInfo |-> JNull])}
    \cup {JDict([viewInfo |-> JDict([is_upower_exclusive |-> f])]) : f \in BOOLEAN}

\* The value at videoData, with and without an owner.
VideoDataVals ==
    {JDict([title |-> "t1", ctime |-> 100, duration |-> d]) : d \in {1}}
    \cup {JDict([title |-> "t1", ctime |-> 100, duration |-> d,
                 owner |-> JDict([name |-> "o1"])]) : d \in 1..(MaxDuration + 1)}

\* PageMetadataDocuments: video and videoData each absent or present.
PageMetaDocs ==
    {JDict(EmptyRec)}
    \cup {JDict([video |-> v]) : v \in VideoVals}
    \cup {JDict([videoData |-> w]) : w \in VideoDataVals}
    \cup {JDict([video |-> v, videoData |-> w]) : v \in VideoVals, w \in VideoDataVals}

\* The assignments a script block may carry for a marker: none, a document
\* above the threshold, malformed text above it, a document at the threshold.
Asgs(docs, small) ==
    {NoAsg}
    \cup {Asg(SizeThreshold + 1, d) : d \in docs}
    \cup {Asg(SizeThreshold + 1, Raised), Asg(SizeThreshold, small)}

\* The pages a GET may answer with: no script block, or one.
Pages ==
    {<<>>}
    \cup {<<[play |-> a, state |-> b]>> :
              a \in Asgs(PagePlayDocs, JDict([data |-> JNull])),
              b \in Asgs(PageMetaDocs, JDict(EmptyRec))}

LineBare == <<"B", "V", "1", "x", "x", "4", "1", "1", "c", "7", "m", "D">>
LinePath == <<"/", "v", "/">> \o LineBare \o <<"/", "?", "p", "=", "1">>
LineShort == <<"B", "V", "1", "x", "x", "4", "1", "1", "c", "7", "m">>
Lines == {LineBare, LinePath, LineShort}

\* Values the environment may have bound the global name bvid to.
BvidEnvs == {LineBare, <<"B", "V", "9", "9", "9", "9", "9", "9", "9", "9", "9", "9">>}

\* -------------------------------------------------------------------- state

VARIABLES
    \* a direct call of a function that keeps no state
    sel_fn,       \* the function under call
    sel_pc,       \* "call" before it ran, "done" after, "idle" when not called
    video_list,   \* argument of find_highest_quality_file_index
    highest,      \* its return value
    bv_json,      \* argument of get_media_info
    audio_info,   \* its return value, or the exception that escaped
    text,         \* argument of parse_bv_info: the page's script blocks
    bv_info,      \* its return value: the pair (data, data1)
    url_or_bvid,  \* argument of extract_bvid
    bvid_found,   \* its return value, <<>> for None
    result,       \* what download_audio_from_line gave the main block
    exit_code,    \* the code the main block exits with, -1 before it does
    \* the call under way
    entry,        \* the function called from outside
    pc,           \* where control is
    outcome,      \* what entry returned ("raised": an exception escaped it)
    \* the environment
    line,         \* the input string of download_audio_from_line
    max_duration, \* its max_duration argument
    env,          \* the bindings of the names the module leaves free
    \* fetch_video_info
    fvi,          \* its arguments, loop index and locals
    fvi_ret,      \* its return value: status, audio_link, audio_json
    fvi_log,      \* what it did: page GETs, sleeps, attempts missed
    \* download_audio
    da,           \* its arguments and loop index
    da_ret,       \* its return value
    da_log,       \* what it did: stream GETs, sleeps, attempts failed
    \* download_audio_from_line
    status,       \* its local status
    \* the output directory
    file,         \* audio.mp3: "absent", "partial" or "complete"
    file_io,      \* whether mkdir or open has been called on the directory
    sidecar,      \* audio.json: the record written, NoRecord when absent
    file_len,     \* audio.mp3: the number of bytes in it, 0 when absent
    received      \* bytes of the body the attempt's stream GET delivered

sel_vars == <<sel_fn, sel_pc, video_list, highest, bv_json, audio_info>>
call_vars == <<entry, pc, outcome>>
env_vars == <<line, max_duration, env>>
fvi_vars == <<fvi, fvi_ret, fvi_log>>
da_vars == <<da, da_ret, da_log>>
out_vars == <<file, file_io, sidecar, file_len, received>>
fn_vars == <<text, bv_info, url_or_bvid, bvid_found, result, exit_code>>
run_vars == <<call_vars, env_vars, fvi_vars, da_vars, status, out_vars>>
vars == <<sel_vars, fn_vars, run_vars>>

NoInfo == [t |-> "none", link |-> "", audio_format |-> <<>>,
           is_flac |-> FALSE, compared |-> FALSE]

\* ------------------------------------------------- the selector, called alone

FnIdle ==
    /\ text = <<>>
    /\ bv_info = <<NoDoc, NoDoc>>
    /\ url_or_bvid = <<>>
    /\ bvid_found = <<>>
    /\ result = "none"
    /\ exit_code = -1

SelIdle ==
    /\ FnIdle
    /\ sel_fn = "none"
    /\ sel_pc = "idle"
    /\ video_list = <<>>
    /\ highest = -1
    /\ bv_json = NoDoc
    /\ audio_info = NoInfo

NoReturn == Verdict("none", "", NoRecord)
FviIdle == [max_attempts |-> 0, delay |-> 0, attempt |-> 0,
            media_info_link |-> NoDoc, media_info_meta |-> NoDoc]
\* gets: page GETs issued; sleeps: the delays slept; missed: attempts whose GET
\* failed or whose page had neither a playback document nor the flag;
\* flag_at: the number of the first GET whose page had the flag, 0 for none.
FviLogIdle == [gets |-> 0, sleeps |-> <<>>, missed |-> 0, flag_at |-> 0]
DaIdle == [audio_link |-> "", max_attempts |-> 0, delay |-> 0, attempt |-> 0]
\* gets: stream GETs issued; sleeps: the delays slept; failed: attempts that
\* ended in an exception; streamed: some attempt streamed the body to its end.
DaLogIdle == [gets |-> 0, sleeps |-> <<>>, failed |-> 0, streamed |-> FALSE]

RunIdle ==
    /\ entry = "none"
    /\ pc = "idle"
    /\ outcome = "none"
    /\ line = <<>>
    /\ max_duration = 0
    /\ env = [bvid_bound |-> FALSE, bvid |-> <<>>, s_bound |-> FALSE]
    /\ fvi = FviIdle
    /\ fvi_ret = NoReturn
    /\ fvi_log = FviLogIdle
    /\ da = DaIdle
    /\ da_ret = "none"
    /\ da_log = DaLogIdle
    /\ status = "none"
    /\ file = "absent"
    /\ file_io = FALSE
    /\ sidecar = NoRecord
    /\ file_len = 0
    /\ received = 0

\* A call of one of the two selector functions on a drawn argument.
SelInit ==
    /\ RunIdle
    /\ FnIdle
    /\ sel_pc = "call"
    /\ highest = -1
    /\ audio_info = NoInfo
    /\ \/ /\ sel_fn = "find_highest_quality_file_index"
          /\ video_list \in VideoLists
          /\ bv_json = NoDoc
       \/ /\ sel_fn = "get_media_info"
          /\ video_list = <<>>
          /\ bv_json \in SelDocs

CallFindHighest ==
    /\ sel_pc = "call"
    /\ sel_fn = "find_highest_quality_file_index"
    /\ highest' = FindHighestQualityFileIndex(video_list)
    /\ sel_pc' = "done"
    /\ UNCHANGED <<sel_fn, video_list, bv_json, audio_info, fn_vars, run_vars>>

CallGetMediaInfo ==
    /\ sel_pc = "call"
    /\ sel_fn = "get_media_info"
    /\ audio_info' = GetMediaInfo(bv_json)
    /\ sel_pc' = "done"
    /\ UNCHANGED <<sel_fn, video_list, bv_json, highest, fn_vars, run_vars>>

SelNext == CallFindHighest \/ CallGetMediaInfo

SpecSel == SelInit /\ [][SelNext]_vars

\* ---------------------- parse_bv_info, extract_bvid and the main block, alone

\* Largest number of script blocks of a page handed to parse_bv_info.
MaxScripts == 2

\* What a script block may assign to a marker: nothing; above the threshold
\* a document, the empty document or malformed text; a document of exactly
\* the threshold length.
FnAsgs(doc) ==
    {NoAsg,
     Asg(SizeThreshold + 1, doc),
     Asg(SizeThreshold + 1, JDict(EmptyRec)),
     Asg(SizeThreshold + 1, Raised),
     Asg(SizeThreshold, doc)}

FnPlayDoc == JDict([data |-> JDict(EmptyRec)])
FnMetaDoc == JDict([videoData |-> JDict(EmptyRec)])

\* The pages: at most MaxScripts non-empty script blocks.
FnTexts ==
    SeqUpTo({[play |-> a, state |-> b] : a \in FnAsgs(FnPlayDoc), b \in FnAsgs(FnMetaDoc)},
            MaxScripts)

\* Input strings for extract_bvid: a BV id, a near miss or nothing, between a
\* prefix and a suffix of a path, a shortened link or a percent-encoded URL.
LineOther == <<"B", "V", "9", "9", "9", "9", "9", "9", "9", "9", "9", "9">>
LineLower == <<"b", "v", "1", "x", "x", "4", "1", "1", "c", "7", "m", "D">>
LineBroken == <<"B", "V", "1", "x", "x", "4", "%", "1", "c", "7", "m", "D">>
FnPrefixes ==
    {<<>>,
     <<"/", "v", "/">>,
     <<"b", "2", "3", ".", "t", "v", "/">>,
     <<"%", "2", "F">>,
     <<"B", "V">>,
     LineShort \o <<"/">>}
FnMiddles == {<<>>, LineBare, LineOther, LineShort, LineLower, LineBroken}
FnSuffixes ==
    {<<>>,
     <<"/", "?", "p", "=", "1">>,
     <<"%", "3", "F">>,
     <<"x", "y">>,
     <<"/">> \o LineOther}
FnLines == {a \o b \o c : a \in FnPrefixes, b \in FnMiddles, c \in FnSuffixes}

\* What the call of line 452 may give the main block: a status returned, an
\* exception other than KeyboardInterrupt, or KeyboardInterrupt.
Statuses == {"ok", "excluded", "duration_exceeded", "failed"}
MainResults == Statuses \cup {"raised", "interrupt"}

\* Lines 451-467: the exit code for what the call gave.
ExitCode(r) ==
    CASE r = "ok" -> 0
      [] r = "excluded" -> 2
      [] r = "interrupt" -> 130
      [] OTHER -> 1

\* A call of parse_bv_info or extract_bvid on a drawn argument, or the main
\* block on a drawn result of its call.
FnInit ==
    /\ RunIdle
    /\ sel_pc = "call"
    /\ video_list = <<>>
    /\ highest = -1
    /\ bv_json = NoDoc
    /\ audio_info = NoInfo
    /\ bv_info = <<NoDoc, NoDoc>>
    /\ bvid_found = <<>>
    /\ exit_code = -1
    /\ \/ /\ sel_fn = "parse_bv_info"
          /\ text \in FnTexts
          /\ url_or_bvid = <<>>
          /\ result = "none"
       \/ /\ sel_fn = "extract_bvid"
          /\ text = <<>>
          /\ url_or_bvid \in FnLines
          /\ result = "none"
       \/ /\ sel_fn = "main"
          /\ text = <<>>
          /\ url_or_bvid = <<>>
          /\ result \in MainResults

CallParseBvInfo ==
    /\ sel_pc = "call"
    /\ sel_fn = "parse_bv_info"
    /\ bv_info' = ParseBvInfo(text)
    /\ sel_pc' = "done"
    /\ UNCHANGED <<sel_fn, video_list, highest, bv_json, audio_info, text,
                   url_or_bvid, bvid_found, result, exit_code, run_vars>>

CallExtractBvid ==
    /\ sel_pc = "call"
    /\ sel_fn = "extract_bvid"
    /\ bvid_found' = ExtractBvid(url_or_bvid)
    /\ sel_pc' = "done"
    /\ UNCHANGED <<sel_fn, video_list, highest, bv_json, audio_info, text, bv_info,
                   url_or_bvid, result, exit_code, run_vars>>

MainExit ==
    /\ sel_pc = "call"
    /\ sel_fn = "main"
    /\ exit_code' = ExitCode(result)
    /\ sel_pc' = "done"
    /\ UNCHANGED <<sel_fn, video_list, highest, bv_json, audio_info, text, bv_info,
                   url_or_bvid, bvid_found, result, run_vars>>

FnNext == CallParseBvInfo \/ CallExtractBvid \/ MainExit

SpecFn == FnInit /\ [][FnNext]_vars

\* ---------------------------------------------------- the pipeline, one call

\* The names the module uses and never binds: bvid (line 327) and s (line
\* 347). Python raises NameError for each unless the environment the function
\* runs in has bound it; both cases are kept.
Envs ==
    {[bvid_bound |-> FALSE, bvid |-> <<>>, s_bound |-> b] : b \in BOOLEAN}
    \cup {[bvid_bound |-> TRUE, bvid |-> v, s_bound |-> b] : v \in BvidEnvs, b \in BOOLEAN}

\* One call from outside: of fetch_video_info or download_audio with drawn
\* max_attempts and delay, or of download_audio_from_line with a drawn line.
\* download_audio may find a file left at output_filename by an earlier run,
\* shorter than the body.
Init ==
    /\ SelIdle
    /\ outcome = "none"
    /\ env \in Envs
    /\ fvi_ret = NoReturn
    /\ fvi_log = FviLogIdle
    /\ da_ret = "none"
    /\ da_log = DaLogIdle
    /\ status = "none"
    /\ file_io = FALSE
    /\ sidecar = NoRecord
    /\ received = 0
    /\ \/ /\ entry = "fetch_video_info"
          /\ pc = "fvi_loop"
          /\ file = "absent"
          /\ file_len = 0
          /\ line = <<>>
          /\ max_duration = 0
          /\ \E m \in 0..MaxAttempts, d \in 1..MaxDelay :
                 fvi = [FviIdle EXCEPT !.max_attempts = m, !.delay = d]
          /\ da = DaIdle
       \/ /\ entry = "download_audio"
          /\ pc = "da_loop"
          /\ line = <<>>
          /\ max_duration = 0
          /\ fvi = FviIdle
          /\ \E m \in 0..MaxAttempts, d \in 1..MaxDelay, u \in {"", "u1"} :
                 da = [DaIdle EXCEPT !.audio_link = u, !.max_attempts = m, !.delay = d]
          /\ file_len \in 0..(BodyLen - 1)
          /\ file = IF file_len = 0 THEN "absent" ELSE "partial"
       \/ /\ entry = "download_audio_from_line"
          /\ pc = "fetch_link"
          /\ line \in Lines
          /\ max_duration \in {0, MaxDuration}
          /\ fvi = FviIdle
          /\ da = DaIdle
          /\ file = "absent"
          /\ file_len = 0

\* fetch_video_info returns v to its caller (lines 316, 330, 340), or lets an
\* exception escape: neither fetch_audio_link_from_line nor
\* download_audio_from_line catches anything. The two documents end with
\* the call; those of a page that was excluded are kept, as the record of
\* what was excluded.
FviReturn(v) ==
    /\ fvi_ret' = v
    /\ fvi' = IF v.ret = "excluded" THEN fvi
              ELSE [fvi EXCEPT !.media_info_link = NoDoc, !.media_info_meta = NoDoc]
    /\ IF v.ret = "raised"
       THEN /\ pc' = "done"
            /\ outcome' = "raised"
            /\ status' = status
       ELSE IF entry = "fetch_video_info"
       THEN /\ pc' = "done"
            /\ outcome' = v.ret
            /\ status' = status
       ELSE /\ pc' = "after_fetch"
            /\ outcome' = outcome
            /\ status' = v.ret

\* fetch_audio_link_from_line (lines 385-396), as download_audio_from_line
\* calls it at line 412.
FetchAudioLinkFromLine ==
    /\ pc = "fetch_link"
    /\ IF ExtractBvid(line) = <<>>
       THEN /\ pc' = "after_fetch"
            /\ status' = "failed"
            /\ fvi' = fvi
       ELSE /\ pc' = "fvi_loop"
            /\ status' = status
            /\ fvi' = [FviIdle EXCEPT !.max_attempts = DefaultMaxAttempts,
                                      !.delay = DefaultDelay]
    /\ UNCHANGED <<sel_vars, fn_vars, entry, outcome, env_vars, fvi_ret, fvi_log, da_vars,
                   out_vars>>

\* What the log keeps of a page: whether its metadata document has
\* video.viewInfo.is_upower_exclusive set, and whether it has no playback
\* document (none, or an empty one).
FlagSet(meta) ==
    /\ IsDictWith(meta, "video")
    /\ IsDictWith(meta.v["video"], "viewInfo")
    /\ IsDictWith(meta.v["video"].v["viewInfo"], "is_upower_exclusive")
    /\ meta.v["video"].v["viewInfo"].v["is_upower_exclusive"] = TRUE
NoPlayback(playinfo) == playinfo = NoDoc \/ playinfo = JDict(EmptyRec)

\* Lines 268-308: the next attempt issues its page GET. A RequestException
\* (transport failure, or the error status raise_for_status turns into one)
\* leads to the handler of line 335; otherwise the page is parsed.
FviGet ==
    /\ pc = "fvi_loop"
    /\ fvi.attempt < fvi.max_attempts
    /\ \/ /\ pc' = "fvi_sleep"
          /\ fvi' = fvi
          /\ fvi_log' = [fvi_log EXCEPT !.gets = @ + 1, !.missed = @ + 1]
       \/ \E page \in Pages :
             LET parsed == ParseBvInfo(page)
             IN  /\ pc' = "fvi_parsed"
                 /\ fvi' = [fvi EXCEPT !.media_info_link = parsed[1],
                                       !.media_info_meta = parsed[2]]
                 /\ fvi_log' = [fvi_log EXCEPT
                        !.gets = @ + 1,
                        !.missed = IF NoPlayback(parsed[1]) /\ ~FlagSet(parsed[2])
                                   THEN @ + 1 ELSE @,
                        !.flag_at = IF @ = 0 /\ FlagSet(parsed[2])
                                    THEN fvi_log.gets + 1 ELSE @]
    /\ UNCHANGED <<sel_vars, fn_vars, entry, outcome, env_vars, fvi_ret, da_vars, status, out_vars>>

\* Lines 310-333: the attempt's verdict on the parsed page. After a miss the
\* two documents are dead: line 308 assigns both before anything reads them
\* again, so they are dropped here rather than carried into the next attempt.
FviClassify ==
    /\ pc = "fvi_parsed"
    /\ LET v == Classify(fvi.media_info_link, fvi.media_info_meta,
                         env.bvid_bound, env.bvid)
       IN  IF v.ret = "miss"
           THEN /\ pc' = "fvi_sleep"
                /\ fvi' = [fvi EXCEPT !.media_info_link = NoDoc,
                                      !.media_info_meta = NoDoc]
                /\ UNCHANGED <<outcome, status, fvi_ret>>
           ELSE FviReturn(v)
    /\ UNCHANGED <<sel_vars, fn_vars, entry, env_vars, fvi_log, da_vars, out_vars>>

\* Lines 333 and 337: time.sleep(delay), then the next attempt.
FviSleep ==
    /\ pc = "fvi_sleep"
    /\ pc' = "fvi_loop"
    /\ fvi' = [fvi EXCEPT !.attempt = @ + 1]
    /\ fvi_log' = [fvi_log EXCEPT !.sleeps = Append(@, fvi.delay)]
    /\ UNCHANGED <<sel_vars, fn_vars, entry, outcome, env_vars, fvi_ret, da_vars, status, out_vars>>

\* Lines 339-340: the loop has run out.
FviExhausted ==
    /\ pc = "fvi_loop"
    /\ fvi.attempt >= fvi.max_attempts
    /\ FviReturn(Verdict("failed", "", NoRecord))
    /\ UNCHANGED <<sel_vars, fn_vars, entry, env_vars, fvi_log, da_vars, out_vars>>

\* ----------------------------------------------------------- download_audio

\* download_audio returns r (line 381) to its caller.
DaReturn(r) ==
    /\ da_ret' = r
    /\ IF entry = "download_audio"
       THEN /\ pc' = "done"
            /\ outcome' = r
            /\ status' = status
       ELSE /\ pc' = "after_download"
            /\ outcome' = outcome
            /\ status' = r

\* Lines 343-377, one pass of the loop body. s.get raises NameError where s is
\* unbound, and a RequestException for a transport failure, an error status
\* or a URL without a scheme (the empty string). The request carries no Range
\* header whatever is at output_filename, so the answer is the whole body; it
\* may break off while it is streamed, after mkdir and open('wb') emptied the
\* file and k of its bytes were written. Every
\* exception is caught (lines 370, 374) and leads to the sleep. A body
\* streamed to its end falls off the try block: nothing returns or breaks,
\* and the for statement takes the next index.
DaAttempt ==
    /\ pc = "da_loop"
    /\ da.attempt < da.max_attempts
    /\ \/ /\ ~env.s_bound
          /\ pc' = "da_sleep"
          /\ da' = da
          /\ da_log' = [da_log EXCEPT !.failed = @ + 1]
          /\ UNCHANGED <<file, file_io, file_len, received>>
       \/ /\ env.s_bound
          /\ pc' = "da_sleep"
          /\ da' = da
          /\ da_log' = [da_log EXCEPT !.gets = @ + 1, !.failed = @ + 1]
          /\ received' = 0
          /\ UNCHANGED <<file, file_io, file_len>>
       \/ /\ env.s_bound
          /\ da.audio_link # ""
          /\ pc' = "da_sleep"
          /\ da' = da
          /\ da_log' = [da_log EXCEPT !.gets = @ + 1, !.failed = @ + 1]
          /\ file' = "partial"
          /\ file_io' = TRUE
          /\ \E k \in 0..(BodyLen - 1) :
                 /\ file_len' = k
                 /\ received' = k
       \/ /\ env.s_bound
          /\ da.audio_link # ""
          /\ pc' = "da_loop"
          /\ da' = [da EXCEPT !.attempt = @ + 1]
          /\ da_log' = [da_log EXCEPT !.gets = @ + 1, !.streamed = TRUE]
          /\ file' = "complete"
          /\ file_io' = TRUE
          /\ file_len' = BodyLen
          /\ received' = BodyLen
    /\ UNCHANGED <<sel_vars, fn_vars, entry, outcome, env_vars, fvi_vars, da_ret, status, sidecar>>

\* Lines 372-373 and 376-377: time.sleep(delay); continue.
DaSleep ==
    /\ pc = "da_sleep"
    /\ pc' = "da_loop"
    /\ da' = [da EXCEPT !.attempt = @ + 1]
    /\ da_log' = [da_log EXCEPT !.sleeps = Append(@, da.delay)]
    /\ received' = 0
    /\ UNCHANGED <<sel_vars, fn_vars, entry, outcome, env_vars, fvi_vars, da_ret, status,
                   file, file_io, sidecar, file_len>>

\* Lines 378-381: the else clause of the for statement runs whenever the loop
\* ends without break, and the loop body has no break.
DaExhausted ==
    /\ pc = "da_loop"
    /\ da.attempt >= da.max_attempts
    /\ DaReturn("failed")
    /\ UNCHANGED <<sel_vars, fn_vars, entry, env_vars, fvi_vars, da, da_log, out_vars>>

\* ------------------------------------------------- download_audio_from_line

\* Mutant: the sidecar is written unless the video was excluded.
WritesSidecarUnlessExcluded(st) == st # "excluded"

\* Line 423: if status == 'ok'
WritesSidecar(st) == st = "ok"

\* Lines 414-421: after fetch_audio_link_from_line returned. Only status 'ok'
\* leads to download_audio, called with its default max_attempts and delay;
\* any other status is returned as it is (line 431).
AfterFetch ==
    /\ pc = "after_fetch"
    /\ IF status = "ok"
       THEN /\ pc' = "da_loop"
            /\ da' = [DaIdle EXCEPT !.audio_link = fvi_ret.audio_link,
                                    !.max_attempts = DefaultMaxAttempts,
                                    !.delay = DefaultDelay]
            /\ outcome' = outcome
       ELSE /\ pc' = "done"
            /\ da' = da
            /\ outcome' = status
    /\ UNCHANGED <<sel_vars, fn_vars, entry, env_vars, fvi_vars, da_ret, da_log, status, out_vars>>

\* Lines 421-431: after download_audio returned. audio.json is written when
\* the status it returned passes the test of line 423.
AfterDownload ==
    /\ pc = "after_download"
    /\ pc' = "done"
    /\ outcome' = status
    /\ IF WritesSidecar(status)
       THEN /\ sidecar' = fvi_ret.audio_json
            /\ file_io' = TRUE
       ELSE UNCHANGED <<sidecar, file_io>>
    /\ UNCHANGED <<sel_vars, fn_vars, entry, env_vars, fvi_vars, da_vars, status, file,
                   file_len, received>>

Next ==
    \/ FetchAudioLinkFromLine
    \/ FviGet
    \/ FviClassify
    \/ FviSleep
    \/ FviExhausted
    \/ AfterFetch
    \/ DaAttempt
    \/ DaSleep
    \/ DaExhausted
    \/ AfterDownload

Spec == Init /\ [][Next]_vars

\* A call of extract_bvid alone (or of another function of SpecFn), or a
\* call that reaches it through fetch_audio_link_from_line.
SpecLine == (FnInit \/ Init) /\ [][FnNext \/ Next]_vars

\* =================================================================== claims

FviReturned == fvi_ret.ret # "none"
FviRunning == pc \in {"fvi_loop", "fvi_parsed", "fvi_sleep"}
InPipeline == entry = "download_audio_from_line"

\* C1: once a page GET has succeeded and the parsed metadata document has
\* video.viewInfo.is_upower_exclusive set, fetch_video_info returns 'excluded'
\* in that attempt: from the verdict on, the page GETs number k, the number of
\* that attempt, the sleeps number k - 1, and k is at most max_attempts.
C1_ExcludedAtOnce ==
    fvi_log.flag_at # 0 =>
        /\ fvi_log.gets = fvi_log.flag_at
        /\ Len(fvi_log.sleeps) = fvi_log.flag_at - 1
        /\ fvi_log.flag_at <= fvi.max_attempts
        /\ \/ pc = "fvi_parsed" /\ ~FviReturned
           \/ fvi_ret.ret = "excluded" /\ ~FviRunning

\* C1 witness: the flag met on the second of three attempts, and the call
\* over with 'excluded' after two GETs.
C1_Witness ==
    /\ entry = "fetch_video_info"
    /\ pc = "done"
    /\ outcome = "excluded"
    /\ fvi.max_attempts = 3
    /\ fvi_log.flag_at = 2
    /\ fvi_log.gets = 2

\* The duration the metadata document gives, 0 when it gives none.
MetaDuration(meta) ==
    IF IsDictWith(meta, "videoData") /\ IsDictWith(meta.v["videoData"], "duration")
    THEN meta.v["videoData"].v["duration"]
    ELSE 0

\* C2 as claimed: an attempt that parsed a PlaybackInfoDocument, with a
\* non-zero max_duration and a metadata duration above it, ends the pipeline
\* in that attempt with 'duration_exceeded': no retry, no download.
C2_DurationExceeded ==
    [][(/\ InPipeline
        /\ pc = "fvi_parsed"
        /\ ~NoPlayback(fvi.media_info_link)
        /\ max_duration # 0
        /\ MetaDuration(fvi.media_info_meta) > max_duration)
       => (fvi_ret'.ret = "duration_exceeded" /\ pc' = "after_fetch")]_vars

\* The steps a running call of fetch_video_info has left at most: three per
\* attempt not yet begun, fewer inside an attempt.
FviMeasure ==
    3 * (fvi.max_attempts - fvi.attempt)
    + (CASE pc = "fvi_loop" -> 3 [] pc = "fvi_parsed" -> 2 [] pc = "fvi_sleep" -> 1
         [] OTHER -> 0)

\* C3: no call of fetch_video_info runs forever (each step of a running call
\* lowers a measure that is never negative); it returns
\* 'failed' exactly when each of its max_attempts attempts ended in a failed
\* GET or in a page with neither a playback document nor the flag, and then
\* it has issued exactly max_attempts page GETs, one per attempt, and slept
\* after each.
C3_FailedIffExhausted ==
    /\ [](FviReturned =>
            /\ (fvi_ret.ret = "failed" <=> fvi_log.missed = fvi.max_attempts)
            /\ (fvi_ret.ret = "failed" =>
                    /\ fvi_log.gets = fvi.max_attempts
                    /\ Len(fvi_log.sleeps) = fvi.max_attempts))
    /\ [](fvi_log.gets \in {fvi.attempt, fvi.attempt + 1})
    /\ [](FviRunning => FviMeasure >= 0)
    /\ [][FviRunning => FviMeasure' < FviMeasure]_vars

\* C3 witness: three attempts, a failed GET among them and a page without
\* playback document among them, and 'failed' returned after three GETs.
C3_Witness ==
    /\ entry = "fetch_video_info"
    /\ pc = "done"
    /\ outcome = "failed"
    /\ fvi.max_attempts = 3
    /\ fvi_log.gets = 3
    /\ fvi_log.missed = 3
    /\ Len(fvi_log.sleeps) = 3

\* What the Stream Selector makes of the attempt's playback document.
SelectedNow == GetMediaInfo(fvi.media_info_link)

\* C4 as claimed: an attempt whose playback document yields an empty resource
\* URL goes on to the sleep and the next attempt; fetch_video_info never
\* returns 'ok' with an empty URL, and download_audio is never entered with one.
C4_EmptyUrlIsTransientMiss ==
    /\ [][(/\ pc = "fvi_parsed"
           /\ ~NoPlayback(fvi.media_info_link)
           /\ SelectedNow.t = "return"
           /\ SelectedNow.link = "")
          => pc' = "fvi_sleep"]_vars
    /\ [](fvi_ret.ret = "ok" => fvi_ret.audio_link # "")
    /\ []((InPipeline /\ pc \in {"da_loop", "da_sleep"}) => da.audio_link # "")

\* C5 as claimed: once an attempt of download_audio has streamed the whole
\* body, no further stream GET is issued and 'ok' is returned; 'failed' is
\* returned only when all max_attempts attempts failed.
C5_OkOnCompleteStream ==
    /\ [][da_log.streamed => da_log'.gets = da_log.gets]_vars
    /\ []((da_ret # "none" /\ da_log.streamed) => da_ret = "ok")
    /\ [](da_ret = "failed" => da_log.failed = da.max_attempts)

\* C10: audio.json exists only if download_audio returned 'ok'; a run of
\* download_audio_from_line that ends in 'excluded', 'duration_exceeded' or
\* 'failed' has written no audio.json, and one that ends in 'excluded' or
\* 'duration_exceeded' has touched nothing in the output directory.
C10_SidecarOnlyAfterOk ==
    /\ sidecar # NoRecord => da_ret = "ok"
    /\ (InPipeline /\ outcome \in {"excluded", "duration_exceeded", "failed"})
           => sidecar = NoRecord
    /\ (InPipeline /\ outcome \in {"excluded", "duration_exceeded"})
           => (~file_io /\ file = "absent")

\* C10 witness: the page fetch returned 'ok', download_audio wrote audio.mp3
\* and returned 'failed', and the run ended 'failed' without audio.json.
C10_Witness ==
    /\ InPipeline
    /\ pc = "done"
    /\ fvi_ret.ret = "ok"
    /\ da_ret = "failed"
    /\ outcome = "failed"
    /\ file_io
    /\ sidecar = NoRecord

\* The quality tuple of a descriptor, a missing key counting as 0.
QTuple(d) == <<Width(d), Height(d), FrameRate(d), Bandwidth(d)>>

\* a is lexicographically greater than b.
LexGreater(a, b) ==
    \E i \in 1..4 : a[i] > b[i] /\ \A j \in 1..(i - 1) : a[j] = b[j]

LexGeq(a, b) == a = b \/ LexGreater(a, b)

FindDone == sel_fn = "find_highest_quality_file_index" /\ sel_pc = "done"
SelectDone == sel_fn = "get_media_info" /\ sel_pc = "done"

\* C6: for every non-empty descriptor list the returned index is an index of
\* the list, and the quality tuple (width, height, frame rate, bandwidth) of
\* the descriptor it names is lexicographically greater than or equal to the
\* tuple of every descriptor of the list.
C6_WinnerIsLexMax ==
    (FindDone /\ video_list # <<>>) =>
        /\ highest \in 0..(Len(video_list) - 1)
        /\ \A j \in 1..Len(video_list) :
               LexGeq(QTuple(video_list[highest + 1]), QTuple(video_list[j]))

\* C6 witness: a two-element list whose second descriptor wins on a later key
\* although the first has a key the second lacks.
C6_Witness ==
    /\ FindDone
    /\ Len(video_list) = 2
    /\ highest = 1
    /\ "width" \notin DOMAIN video_list[1]
    /\ LexGreater(QTuple(video_list[2]), QTuple(video_list[1]))

\* C7: when several descriptors share the maximal quality tuple, the returned
\* index is the lowest index among them.
C7_FirstOccurrenceWins ==
    (FindDone /\ video_list # <<>>) =>
        \A j \in 1..Len(video_list) :
            (\A k \in 1..Len(video_list) :
                 LexGeq(QTuple(video_list[j]), QTuple(video_list[k])))
            => highest + 1 <= j

\* C7 witness: two descriptors with the same maximal tuple, written with
\* different keys, and the first one returned.
C7_Witness ==
    /\ FindDone
    /\ Len(video_list) = 2
    /\ QTuple(video_list[1]) = QTuple(video_list[2])
    /\ DOMAIN video_list[1] # DOMAIN video_list[2]
    /\ FrameRate(video_list[1]) > 0
    /\ highest = 0

\* The document has a lossless descriptor at data.dash.flac.audio with a
\* non-empty resource URL.
HasLossless(doc) ==
    /\ IsDictWith(doc, "data")
    /\ IsDictWith(doc.v["data"], "dash")
    /\ IsDictWith(doc.v["data"].v["dash"], "flac")
    /\ IsDictWith(doc.v["data"].v["dash"].v["flac"], "audio")
    /\ IsDictWith(doc.v["data"].v["dash"].v["flac"].v["audio"], "baseUrl")
    /\ doc.v["data"].v["dash"].v["flac"].v["audio"].v["baseUrl"] # ""
LosslessUrl(doc) == doc.v["data"].v["dash"].v["flac"].v["audio"].v["baseUrl"]
LossyList(doc) ==
    IF IsDictWith(doc.v["data"].v["dash"], "audio")
          /\ doc.v["data"].v["dash"].v["audio"].t = "list"
    THEN doc.v["data"].v["dash"].v["audio"].v
    ELSE <<>>

C9_NeverRaises == SelectDone => audio_info.t = "return"

\* The metadata document has videoData with an owner, and no flag.
WellFormedMeta(meta) ==
    /\ IsDictWith(meta, "videoData")
    /\ IsDictWith(meta.v["videoData"], "owner")
    /\ ~FlagSet(meta)

\* C11 as claimed: in a run of download_audio_from_line on a line with a BV
\* id, an attempt whose page embeds a playback document with a lossless
\* descriptor and a metadata document with videoData and owner returns 'ok'
\* with the lossless URL, the format being the lowercased codec string and
\* the record carrying the title, owner name, ctime and BV id of the source;
\* and when no page GET and no stream GET failed after that, the run ends
\* 'ok' with that record written to audio.json.
C11_EndToEndOk ==
    /\ [][(/\ InPipeline
           /\ pc = "fvi_parsed"
           /\ HasLossless(fvi.media_info_link)
           /\ WellFormedMeta(fvi.media_info_meta))
          => (/\ fvi_ret'.ret = "ok"
              /\ fvi_ret'.audio_link = LosslessUrl(fvi.media_info_link)
              /\ SelectedNow.is_flac
              /\ SelectedNow.audio_format = Lower(CodecFlac)
              /\ fvi_ret'.audio_json.t = "record"
              /\ fvi_ret'.audio_json.title = fvi.media_info_meta.v["videoData"].v["title"]
              /\ fvi_ret'.audio_json.owner =
                     fvi.media_info_meta.v["videoData"].v["owner"].v["name"]
              /\ fvi_ret'.audio_json.datetime = fvi.media_info_meta.v["videoData"].v["ctime"]
              /\ fvi_ret'.audio_json.bvid = ExtractBvid(line))]_vars
    /\ []((/\ InPipeline
           /\ pc = "done"
           /\ fvi_ret.ret = "ok"
           /\ fvi_ret.audio_link = "flac_url"
           /\ fvi_log.missed = 0
           /\ da_log.streamed
           /\ da_log.failed = 0)
          => (/\ outcome = "ok"
              /\ file = "complete"
              /\ sidecar = fvi_ret.audio_json))

ParseDone == sel_fn = "parse_bv_info" /\ sel_pc = "done"

\* An assignment whose matched text is longer than 8000 characters, with
\* malformed JSON, and with well-formed JSON.
Malformed(asg) == asg.t = "asg" /\ asg.len > 8000 /\ asg.parsed.t = "raise"
WellFormed(asg) == asg.t = "asg" /\ asg.len > 8000 /\ asg.parsed.t # "raise"

\* C12 as claimed: malformed JSON in a large enough assignment of one
\* document does not end the scan: a well-formed, large enough assignment of
\* the other document, later in the same block or in a later block, is still
\* found, so parse_bv_info returns a document for it.
C12_MalformedJsonContinuesScan ==
    ParseDone =>
        \A i \in 1..Len(text) :
            /\ (/\ Malformed(text[i].play)
                /\ \E j \in i..Len(text) : WellFormed(text[j].state))
               => bv_info[2] # NoDoc
            /\ (/\ Malformed(text[i].state)
                /\ \E j \in (i + 1)..Len(text) : WellFormed(text[j].play))
               => bv_info[1] # NoDoc

\* The matched text of an assignment is longer than 8000 characters.
Qualifies(asg) == asg.t = "asg" /\ asg.len > 8000

\* C13: parse_bv_info returns a playback or a metadata document only if some
\* script block assigns that marker a matched text longer than 8000
\* characters which parses to the document returned; a page without any such
\* assignment gives (None, None).
C13_ThresholdGuardsDocuments ==
    ParseDone =>
        /\ bv_info[1] # NoDoc =>
               \E i \in 1..Len(text) :
                   Qualifies(text[i].play) /\ text[i].play.parsed = bv_info[1]
        /\ bv_info[2] # NoDoc =>
               \E i \in 1..Len(text) :
                   Qualifies(text[i].state) /\ text[i].state.parsed = bv_info[2]
        /\ (\A i \in 1..Len(text) :
                ~Qualifies(text[i].play) /\ ~Qualifies(text[i].state))
               => bv_info = <<NoDoc, NoDoc>>

\* C13 witness: a page with a playback assignment of exactly 8000 characters
\* and a metadata assignment of 8001: only the metadata document is returned.
C13_Witness ==
    /\ ParseDone
    /\ \E i \in 1..Len(text) : text[i].play.t = "asg" /\ text[i].play.len = 8000
    /\ \A i \in 1..Len(text) : ~Qualifies(text[i].play)
    /\ bv_info = <<NoDoc, FnMetaDoc>>

MainDone == sel_fn = "main" /\ sel_pc = "done"

\* C14 as claimed: the main block maps the four outcomes ok, excluded,
\* duration_exceeded and failed to four different exit codes: the code it
\* exits with for one of them is the code of no other.
C14_DistinctExitCodes ==
    (MainDone /\ result \in Statuses) =>
        \A other \in Statuses \ {result} : ExitCode(other) # exit_code

\* C15 as claimed: in download_audio the sleep after a failed attempt grows
\* linearly with the attempt index: each sleep is longer than the one before
\* it by the delay, so no two sleeps of a call are equal.
C15_SleepGrowsLinearly ==
    \A i \in 1..(Len(da_log.sleeps) - 1) :
        da_log.sleeps[i + 1] = da_log.sleeps[i] + da.delay

\* A step of download_audio in which a stream GET delivers the body to its end.
StreamsToEnd ==
    /\ pc = "da_loop"
    /\ pc' = "da_loop"
    /\ da_log'.gets = da_log.gets + 1

\* C16 as claimed, for a server that honours byte ranges: when a stream is
\* delivered to its end onto a file of non-zero size, the file then holds its
\* former bytes followed by the bytes delivered, which are the remaining ones
\* only: its length is the former length plus the number of bytes delivered,
\* and is the length of the body. On an absent or empty file the file holds
\* the bytes delivered.
C16_ResumeKeepsPartial ==
    [][StreamsToEnd =>
          /\ file_len' = BodyLen
          /\ IF file_len > 0
             THEN file_len' = file_len + received'
             ELSE file_len' = received']_vars

ExtractDone == sel_fn = "extract_bvid" /\ sel_pc = "done"

\* w has the identifier shape: BV followed by 10 alphanumeric characters.
IsBvid(w) ==
    /\ Len(w) = 12
    /\ w[1] = "B"
    /\ w[2] = "V"
    /\ \A k \in 3..12 : w[k] \in Alnum

\* The positions of string at which a substring of the identifier shape starts.
BvidStarts(string) ==
    {i \in 1..(Len(string) - 11) : IsBvid(SubSeq(string, i, i + 11))}

C18_FlagOnlyWithoutPlayback ==
    [][(pc = "fvi_parsed" /\ ~NoPlayback(fvi.media_info_link))
          => fvi_ret'.ret # "excluded"]_vars

\* C18 amended: the flag is looked at first in every attempt that parsed a
\* page, with or without a playback document: the attempt returns 'excluded'
\* exactly when the flag is set, and the playback document decides only when
\* it is not set: with a playback document the attempt then ends in 'ok' or
\* in an exception, without one in a miss.
C18_FlagConsultedFirst ==
    [][pc = "fvi_parsed" =>
          /\ fvi_ret'.ret = "excluded" <=> FlagSet(fvi.media_info_meta)
          /\ ~FlagSet(fvi.media_info_meta) =>
                 IF NoPlayback(fvi.media_info_link)
                 THEN pc' = "fvi_sleep" /\ fvi_ret' = fvi_ret
                 ELSE fvi_ret'.ret \in {"ok", "raised"}]_vars

\* C18 witness: a page with a playback document that has a lossless
\* descriptor, and with the flag, was excluded.
C18_Witness ==
    /\ fvi_ret.ret = "excluded"
    /\ HasLossless(fvi.media_info_link)
    /\ FlagSet(fvi.media_info_meta)

\* The record has a value for each of title, owner, datetime and bvid.
RecordFilled(json) ==
    /\ json.t = "record"
    /\ json.title # JNull
    /\ json.owner # JNull
    /\ json.datetime # JNull
    /\ json.bvid # <<>>

\* C19 as claimed: no exception escapes fetch_video_info, whatever the page
\* parsed to: a call that is over has returned 'ok', 'excluded' or 'failed'
\* (the code has no other status), and with 'ok' a record with title, owner,
\* datetime and bvid.
C19_NoUncaughtException ==
    /\ fvi_ret.ret # "raised"
    /\ (FviReturned /\ ~FviRunning) => fvi_ret.ret \in Statuses
    /\ fvi_ret.ret = "ok" => RecordFilled(fvi_ret.audio_json)

====
